---------------------------- MODULE Spec2Model ----------------------------
(***************************************************************************)
(* Helpdesk orchestrator (openwhisk-helpdesk): text normalisation and      *)
(* cosine scoring (similarity/algorithms.py), the similarity service       *)
(* (similarity/service.py, similarity/main.py), the decision engine        *)
(* (orchestrator/engine.py) and the entry points (__main__.py,             *)
(* orchestrator/main.py).                                                  *)
(*                                                                         *)
(* Python strings the code computes on are sequences of one-character      *)
(* strings; dicts are functions whose DOMAIN is the set of keys present.   *)
(* A non-negative float v is the reduced fraction of v*v (Real), so that   *)
(* sqrt() needs no approximation. Rounding is modelled where a comparison  *)
(* can see it: a cosine whose exact value is 1 is 1.0 or a neighbouring    *)
(* double (ulp).                                                           *)
(***************************************************************************)
EXTENDS Integers, Sequences, FiniteSets, TLC

VARIABLES
    pc,             \* where the request in progress stands
    entry,          \* the entry point that was invoked
    args,           \* its arguments
    env,            \* ALWAYS_CALL_LLM of the process environment
    cmConfig,       \* ConfigManager._config of the singleton
    config,         \* the configuration the request works with
    always,         \* the resolved always_call_llm
    best,           \* best_match (engine), similarity_result (top-level main)
    kbRead,         \* the knowledge base the matcher worked on
    kbFile,         \* the knowledge file it found when it loaded
    matcherMode,    \* how the matcher call went
    llmReply,       \* how the LLM call went
    llmCalls,       \* the requests sent to the LLM
    trace,          \* configuration loads, knowledge reads, matcher and LLM calls
    response,       \* what process_question returned
    result,         \* what the entry point returned
    text1, text2, cosPc, similarity,   \* one call of compute_cosine_similarity
    escAnswer, escPhrases, escPc, escResult    \* one call of _should_escalate

cosVars == <<text1, text2, cosPc, similarity>>

escVars == <<escAnswer, escPhrases, escPc, escResult>>

vars == <<pc, entry, args, env, cmConfig, config, always, best, kbRead, kbFile,
          matcherMode, llmReply, llmCalls, trace, response, result, cosVars,
          escVars>>

---------------------------------------------------------------------------
(* Bounds of the model *)

\* longest text given to compute_cosine_similarity in SpecCos
MaxTextLen == 3

\* escalation phrases in a configured list
MaxPhrases == 2

\* characters of those texts: two letters, an upper-case letter, whitespace,
\* punctuation
Alphabet == {"a", "b", "A", " ", "?"}

Texts == UNION {[1..n -> Alphabet] : n \in 0..MaxTextLen}

---------------------------------------------------------------------------
(* Python str operations *)

UpperCase == <<"A", "B", "C", "D", "E", "F", "G", "H", "I", "J", "K", "L", "M",
               "N", "O", "P", "Q", "R", "S", "T", "U", "V", "W", "X", "Y", "Z">>
LowerCase == <<"a", "b", "c", "d", "e", "f", "g", "h", "i", "j", "k", "l", "m",
               "n", "o", "p", "q", "r", "s", "t", "u", "v", "w", "x", "y", "z">>
Digits == {"0", "1", "2", "3", "4", "5", "6", "7", "8", "9"}

LowerChar(c) ==
    IF \E i \in DOMAIN UpperCase : UpperCase[i] = c
    THEN LowerCase[CHOOSE i \in DOMAIN UpperCase : UpperCase[i] = c]
    ELSE c

\* str.lower()
str_lower(s) == [i \in 1..Len(s) |-> LowerChar(s[i])]

\* \w of the regular expression
IsWordChar(c) ==
    \/ \E i \in DOMAIN LowerCase : LowerCase[i] = c \/ UpperCase[i] = c
    \/ c \in Digits
    \/ c = "_"

\* \s of the regular expression, and the separators of str.split()
IsSpace(c) == c \in {" ", "\t", "\n"}

\* str.split(): the maximal runs of non-whitespace characters
RECURSIVE SplitFrom(_, _, _)
SplitFrom(s, i, cur) ==
    IF i > Len(s)
    THEN IF cur = <<>> THEN <<>> ELSE <<cur>>
    ELSE IF IsSpace(s[i])
         THEN IF cur = <<>>
              THEN SplitFrom(s, i + 1, <<>>)
              ELSE <<cur>> \o SplitFrom(s, i + 1, <<>>)
         ELSE SplitFrom(s, i + 1, Append(cur, s[i]))

str_split(s) == SplitFrom(s, 1, <<>>)

\* ' '.join(words)
RECURSIVE str_join(_)
str_join(words) ==
    IF words = <<>> THEN <<>>
    ELSE IF Len(words) = 1 THEN words[1]
    ELSE words[1] \o <<" ">> \o str_join(Tail(words))

\* str.strip()
RECURSIVE str_lstrip(_)
str_lstrip(s) ==
    IF s # <<>> /\ IsSpace(s[1]) THEN str_lstrip(Tail(s)) ELSE s

RECURSIVE str_rstrip(_)
str_rstrip(s) ==
    IF s # <<>> /\ IsSpace(s[Len(s)])
    THEN str_rstrip(SubSeq(s, 1, Len(s) - 1))
    ELSE s

str_strip(s) == str_rstrip(str_lstrip(s))

\* needle in haystack
str_contains(haystack, needle) ==
    \E i \in 1..(Len(haystack) - Len(needle) + 1) :
        SubSeq(haystack, i, i + Len(needle) - 1) = needle

---------------------------------------------------------------------------
(* Floats *)

RECURSIVE Gcd(_, _)
Gcd(a, b) == IF b = 0 THEN a ELSE Gcd(b, a % b)

\* the float v >= 0 nearest the real r with r*r = n/d; ulp says on which side
\* of r a result lies that rounding has moved off it (0: v is that float)
Real(n, d) ==
    [num |-> n \div Gcd(n, d), den |-> d \div Gcd(n, d), ulp |-> 0]

Zero == Real(0, 1)
One == Real(1, 1)

\* x >= y and x > y on floats
RealGeq(x, y) ==
    \/ x.num * y.den > y.num * x.den
    \/ x.num * y.den = y.num * x.den /\ x.ulp >= y.ulp

RealGt(x, y) ==
    \/ x.num * y.den > y.num * x.den
    \/ x.num * y.den = y.num * x.den /\ x.ulp > y.ulp

\* the same real, whatever the rounding
RealNear(x, y) == x.num = y.num /\ x.den = y.den

---------------------------------------------------------------------------
(* similarity/algorithms.py: CosineSequenceMatcher *)

\* the normalisation without lower-casing
preprocess_text_KeepsCase(text) ==
    LET kept == SelectSeq(text, LAMBDA c : IsWordChar(c) \/ IsSpace(c))
    IN  str_join(str_split(kept))

preprocess_text(text) ==
    LET kept == SelectSeq(str_lower(text),
                          LAMBDA c : IsWordChar(c) \/ IsSpace(c))
    IN  str_join(str_split(kept))

tokenize(text) == str_split(preprocess_text(text))

\* Counter(tokens)
compute_term_frequency(tokens) ==
    [t \in {tokens[i] : i \in DOMAIN tokens} |->
        Cardinality({i \in DOMAIN tokens : tokens[i] = t})]

\* tf.get(term, 0)
TfGet(tf, term) == IF term \in DOMAIN tf THEN tf[term] ELSE 0

RECURSIVE SumOf(_, _)
SumOf(S, f) ==
    IF S = {} THEN 0
    ELSE LET x == CHOOSE x \in S : TRUE IN f[x] + SumOf(S \ {x}, f)

\* lines 53-57: the dot product over the union of the terms
DotProduct(tf1, tf2) ==
    SumOf(DOMAIN tf1 \cup DOMAIN tf2,
          [t \in DOMAIN tf1 \cup DOMAIN tf2 |-> TfGet(tf1, t) * TfGet(tf2, t)])

\* the magnitude with `count ** 2` mistyped as `count * 2`
SquaredMagnitude_Doubled(tf) == SumOf(DOMAIN tf, [t \in DOMAIN tf |-> tf[t] * 2])

\* lines 60-61: the square of the magnitude (the code takes its math.sqrt)
SquaredMagnitude(tf) == SumOf(DOMAIN tf, [t \in DOMAIN tf |-> tf[t] * tf[t]])

\* lines 60-68 in IEEE-754 doubles, for squared magnitudes up to 16: the pairs
\* <<sq1, sq2>> of parallel vectors (dot_product^2 = sq1 * sq2) for which
\* dot_product / (math.sqrt(sq1) * math.sqrt(sq2)) is the double above 1.0
\* (1.0000000000000002), and those for which it is a double below 1.0
QuotientAboveOne ==
    {<<3, 3>>, <<3, 12>>, <<6, 6>>, <<12, 3>>, <<12, 12>>, <<13, 13>>}

QuotientBelowOne ==
    {<<2, 2>>, <<2, 8>>, <<5, 5>>, <<7, 7>>, <<8, 2>>, <<8, 8>>, <<10, 10>>,
     <<15, 15>>}

\* where the rounded quotient lies when the exact one is 1
QuotientRounding(dot_product, sq1, sq2) ==
    CASE dot_product * dot_product # sq1 * sq2 -> 0
      [] <<sq1, sq2>> \in QuotientAboveOne -> 1
      [] <<sq1, sq2>> \in QuotientBelowOne -> -1
      [] OTHER -> 0

\* the quotient with magnitude1 used for both factors of the denominator
CosineOf_FirstMagnitudeTwice(dot_product, sq1, sq2) ==
    IF sq1 = 0 \/ sq2 = 0 THEN Zero
    ELSE [Real(dot_product * dot_product, sq1 * sq1)
              EXCEPT !.ulp = QuotientRounding(dot_product, sq1, sq1)]

\* lines 63-69: dot_product / (magnitude1 * magnitude2), 0.0 on a zero magnitude
CosineOf(dot_product, sq1, sq2) ==
    IF sq1 = 0 \/ sq2 = 0 THEN Zero
    ELSE [Real(dot_product * dot_product, sq1 * sq2)
              EXCEPT !.ulp = QuotientRounding(dot_product, sq1, sq2)]

\* lines 45-69
CosineOfTokens(tokens1, tokens2) ==
    IF tokens1 = <<>> \/ tokens2 = <<>> THEN Zero
    ELSE CosineOf(DotProduct(compute_term_frequency(tokens1),
                             compute_term_frequency(tokens2)),
                  SquaredMagnitude(compute_term_frequency(tokens1)),
                  SquaredMagnitude(compute_term_frequency(tokens2)))

\* the quotient of lines 66-68 taken without the guards of lines 45-46 and
\* 63-64: a zero denominator stays in the value (the division fails)
compute_cosine_similarity_Unguarded(t1, t2) ==
    IF SquaredMagnitude(compute_term_frequency(tokenize(t1)))
           * SquaredMagnitude(compute_term_frequency(tokenize(t2))) = 0
    THEN [num |-> 0, den |-> 0, ulp |-> 0]
    ELSE CosineOfTokens(tokenize(t1), tokenize(t2))

compute_cosine_similarity(t1, t2) == CosineOfTokens(tokenize(t1), tokenize(t2))

---------------------------------------------------------------------------
(* Optional values: None is <<>>, a present value v is <<v>> *)

None == <<>>
Some(v) == <<v>>

\* d.get(key, default) on an optional field
GetOr(field, default) == IF field = None THEN default ELSE field[1]

---------------------------------------------------------------------------
(* String constants of the program and of the inputs *)

\* HelpdeskEngine.FALLBACK_ANSWER
FALLBACK_ANSWER ==
    <<"S", "o", "r", "r", "y", ",", " ", "I", " ", "d", "o", "n", "'", "t",
      " ", "k", "n", "o", "w", " ", "t", "h", "e", " ", "a", "n", "s", "w",
      "e", "r", " ", "t", "o", " ", "t", "h", "a", "t", " ", "q", "u", "e",
      "s", "t", "i", "o", "n", ".">>

\* answer of the error records of both orchestrator entry points
ERROR_ANSWER ==
    <<"S", "o", "r", "r", "y", ",", " ", "I", " ", "e", "n", "c", "o", "u",
      "n", "t", "e", "r", "e", "d", " ", "a", "n", " ", "e", "r", "r", "o",
      "r", " ", "p", "r", "o", "c", "e", "s", "s", "i", "n", "g", " ", "y",
      "o", "u", "r", " ", "r", "e", "q", "u", "e", "s", "t", ".">>

\* answer of the top-level main's outermost handler
SYSTEM_ERROR_ANSWER ==
    <<"S", "o", "r", "r", "y", ",", " ", "s", "y", "s", "t", "e", "m", " ",
      "e", "r", "r", "o", "r", " ", "o", "c", "c", "u", "r", "r", "e", "d">>

ContactSupport ==
    <<"c", "o", "n", "t", "a", "c", "t", " ", "s", "u", "p", "p", "o", "r",
      "t">>

SpeakToHuman ==
    <<"s", "p", "e", "a", "k", " ", "t", "o", " ", "h", "u", "m", "a", "n">>

HumanAssistance ==
    <<"h", "u", "m", "a", "n", " ", "a", "s", "s", "i", "s", "t", "a", "n",
      "c", "e">>

StrTrue ==
    <<"t", "r", "u", "e">>

StrFalse ==
    <<"f", "a", "l", "s", "e">>

StrUpperTrue ==
    <<"T", "R", "U", "E">>

QReset ==
    <<"H", "o", "w", " ", "d", "o", " ", "I", " ", "r", "e", "s", "e", "t",
      " ", "m", "y", " ", "p", "a", "s", "s", "w", "o", "r", "d", "?">>

QResetPw ==
    <<"r", "e", "s", "e", "t", " ", "m", "y", " ", "p", "w">>

QHowResetPw ==
    <<"H", "o", "w", " ", "d", "o", " ", "I", " ", "r", "e", "s", "e", "t",
      " ", "m", "y", " ", "p", "w">>

QError ==
    <<"S", "y", "s", "t", "e", "m", " ", "e", "r", "r", "o", "r", " ", "5",
      "0", "0">>

QBlank ==
    <<" ", " ", " ">>

AReset ==
    <<"G", "o", " ", "t", "o", " ", "l", "o", "g", "i", "n", " ", "p", "a",
      "g", "e", " ", "a", "n", "d", " ", "c", "l", "i", "c", "k", " ", "F",
      "o", "r", "g", "o", "t", " ", "P", "a", "s", "s", "w", "o", "r", "d",
      ".">>

AContact ==
    <<"P", "l", "e", "a", "s", "e", " ", "c", "o", "n", "t", "a", "c", "t",
      " ", "s", "u", "p", "p", "o", "r", "t", ".">>

ARestart ==
    <<"R", "e", "s", "t", "a", "r", "t", " ", "t", "h", "e", " ", "s", "e",
      "r", "v", "e", "r", ".">>

LlmHelp ==
    <<"I", " ", "c", "a", "n", " ", "h", "e", "l", "p", " ", "y", "o", "u",
      " ", "w", "i", "t", "h", " ", "t", "h", "a", "t", ".">>

LlmContact ==
    <<"Y", "o", "u", " ", "n", "e", "e", "d", " ", "t", "o", " ", "C", "O",
      "N", "T", "A", "C", "T", " ", "S", "U", "P", "P", "O", "R", "T">>

---------------------------------------------------------------------------
(* similarity/service.py: KnowledgeStore *)

\* KnowledgeStore.__init__: the compiled-in entries (no escalation key)
DefaultKnowledgeBase ==
    <<[id |-> "kb001",
       question |->
           <<"H", "o", "w", " ", "d", "o", " ", "I", " ", "r", "e", "s", "e", "t",
           " ", "m", "y", " ", "p", "a", "s", "s", "w", "o", "r", "d", "?">>,
       answer |->
           <<"T", "o", " ", "r", "e", "s", "e", "t", " ", "y", "o", "u", "r", " ",
           "p", "a", "s", "s", "w", "o", "r", "d", ",", " ", "g", "o", " ", "t",
           "o", " ", "t", "h", "e", " ", "l", "o", "g", "i", "n", " ", "p", "a",
           "g", "e", " ", "a", "n", "d", " ", "c", "l", "i", "c", "k", " ", "'",
           "F", "o", "r", "g", "o", "t", " ", "P", "a", "s", "s", "w", "o", "r",
           "d", "'", ".", " ", "E", "n", "t", "e", "r", " ", "y", "o", "u", "r",
           " ", "e", "m", "a", "i", "l", " ", "a", "d", "d", "r", "e", "s", "s",
           " ", "a", "n", "d", " ", "f", "o", "l", "l", "o", "w", " ", "t", "h",
           "e", " ", "i", "n", "s", "t", "r", "u", "c", "t", "i", "o", "n", "s",
           " ", "s", "e", "n", "t", " ", "t", "o", " ", "y", "o", "u", "r", " ",
           "e", "m", "a", "i", "l", ".">>,
       escalation |-> None],
      [id |-> "kb002",
       question |->
           <<"H", "o", "w", " ", "c", "a", "n", " ", "I", " ", "c", "h", "a", "n",
           "g", "e", " ", "m", "y", " ", "e", "m", "a", "i", "l", " ", "a", "d",
           "d", "r", "e", "s", "s", "?">>,
       answer |->
           <<"Y", "o", "u", " ", "c", "a", "n", " ", "c", "h", "a", "n", "g", "e",
           " ", "y", "o", "u", "r", " ", "e", "m", "a", "i", "l", " ", "a", "d",
           "d", "r", "e", "s", "s", " ", "i", "n", " ", "y", "o", "u", "r", " ",
           "a", "c", "c", "o", "u", "n", "t", " ", "s", "e", "t", "t", "i", "n",
           "g", "s", ".", " ", "G", "o", " ", "t", "o", " ", "P", "r", "o", "f",
           "i", "l", "e", " ", ">", " ", "A", "c", "c", "o", "u", "n", "t", " ",
           "S", "e", "t", "t", "i", "n", "g", "s", " ", ">", " ", "E", "m", "a",
           "i", "l", " ", "a", "n", "d", " ", "e", "n", "t", "e", "r", " ", "y",
           "o", "u", "r", " ", "n", "e", "w", " ", "e", "m", "a", "i", "l", " ",
           "a", "d", "d", "r", "e", "s", "s", ".">>,
       escalation |-> None],
      [id |-> "kb003",
       question |->
           <<"W", "h", "e", "r", "e", " ", "c", "a", "n", " ", "I", " ", "f", "i",
           "n", "d", " ", "m", "y", " ", "o", "r", "d", "e", "r", " ", "h", "i",
           "s", "t", "o", "r", "y", "?">>,
       answer |->
           <<"Y", "o", "u", "r", " ", "o", "r", "d", "e", "r", " ", "h", "i", "s",
           "t", "o", "r", "y", " ", "i", "s", " ", "a", "v", "a", "i", "l", "a",
           "b", "l", "e", " ", "i", "n", " ", "y", "o", "u", "r", " ", "a", "c",
           "c", "o", "u", "n", "t", " ", "d", "a", "s", "h", "b", "o", "a", "r",
           "d", ".", " ", "L", "o", "g", " ", "i", "n", " ", "a", "n", "d", " ",
           "c", "l", "i", "c", "k", " ", "o", "n", " ", "'", "M", "y", " ", "O",
           "r", "d", "e", "r", "s", "'", " ", "t", "o", " ", "v", "i", "e", "w",
           " ", "a", "l", "l", " ", "y", "o", "u", "r", " ", "p", "a", "s", "t",
           " ", "p", "u", "r", "c", "h", "a", "s", "e", "s", ".">>,
       escalation |-> None],
      [id |-> "kb004",
       question |->
           <<"H", "o", "w", " ", "d", "o", " ", "I", " ", "c", "a", "n", "c", "e",
           "l", " ", "m", "y", " ", "s", "u", "b", "s", "c", "r", "i", "p", "t",
           "i", "o", "n", "?">>,
       answer |->
           <<"T", "o", " ", "c", "a", "n", "c", "e", "l", " ", "y", "o", "u", "r",
           " ", "s", "u", "b", "s", "c", "r", "i", "p", "t", "i", "o", "n", ",",
           " ", "g", "o", " ", "t", "o", " ", "A", "c", "c", "o", "u", "n", "t",
           " ", "S", "e", "t", "t", "i", "n", "g", "s", " ", ">", " ", "B", "i",
           "l", "l", "i", "n", "g", " ", ">", " ", "M", "a", "n", "a", "g", "e",
           " ", "S", "u", "b", "s", "c", "r", "i", "p", "t", "i", "o", "n", " ",
           "a", "n", "d", " ", "c", "l", "i", "c", "k", " ", "'", "C", "a", "n",
           "c", "e", "l", " ", "S", "u", "b", "s", "c", "r", "i", "p", "t", "i",
           "o", "n", "'", ".", " ", "Y", "o", "u", "'", "l", "l", " ", "c", "o",
           "n", "t", "i", "n", "u", "e", " ", "t", "o", " ", "h", "a", "v", "e",
           " ", "a", "c", "c", "e", "s", "s", " ", "u", "n", "t", "i", "l", " ",
           "t", "h", "e", " ", "c", "u", "r", "r", "e", "n", "t", " ", "b", "i",
           "l", "l", "i", "n", "g", " ", "p", "e", "r", "i", "o", "d", " ", "e",
           "n", "d", "s", ".">>,
       escalation |-> None],
      [id |-> "kb005",
       question |->
           <<"W", "h", "a", "t", " ", "p", "a", "y", "m", "e", "n", "t", " ", "m",
           "e", "t", "h", "o", "d", "s", " ", "d", "o", " ", "y", "o", "u", " ",
           "a", "c", "c", "e", "p", "t", "?">>,
       answer |->
           <<"W", "e", " ", "a", "c", "c", "e", "p", "t", " ", "a", "l", "l", " ",
           "m", "a", "j", "o", "r", " ", "c", "r", "e", "d", "i", "t", " ", "c",
           "a", "r", "d", "s", " ", "(", "V", "i", "s", "a", ",", " ", "M", "a",
           "s", "t", "e", "r", "c", "a", "r", "d", ",", " ", "A", "m", "e", "r",
           "i", "c", "a", "n", " ", "E", "x", "p", "r", "e", "s", "s", ")", ",",
           " ", "P", "a", "y", "P", "a", "l", ",", " ", "a", "n", "d", " ", "b",
           "a", "n", "k", " ", "t", "r", "a", "n", "s", "f", "e", "r", "s", " ",
           "f", "o", "r", " ", "e", "n", "t", "e", "r", "p", "r", "i", "s", "e",
           " ", "a", "c", "c", "o", "u", "n", "t", "s", ".">>,
       escalation |-> None]>>

\* contents of config/knowledge-base.json the model draws from
\* KbA: the entry for QReset is not flagged and its answer holds an
\* escalation phrase; KbB: it is flagged and its answer holds none
KbA ==
    <<[id |-> "kb001", question |-> QReset, answer |-> AContact,
       escalation |-> Some(FALSE)],
      [id |-> "kb002", question |-> QError, answer |-> ARestart,
       escalation |-> Some(TRUE)]>>

KbB ==
    <<[id |-> "kb001", question |-> QError, answer |-> ARestart,
       escalation |-> None],
      [id |-> "kb002", question |-> QReset, answer |-> AReset,
       escalation |-> Some(TRUE)]>>

KbFile(state, entries) == [state |-> state, entries |-> entries]

KbFiles ==
    {KbFile("missing", <<>>), KbFile("badjson", <<>>),
     KbFile("unreadable", <<>>),
     KbFile("ok", KbA), KbFile("ok", KbB), KbFile("ok", <<>>)}

\* KnowledgeStore.load_from_file on a store holding `current`: FileNotFoundError
\* and JSONDecodeError are handled, any other failure is raised
\* a load that leaves the store empty when the file cannot be loaded
load_from_file_EmptyOnFailure(current, file) ==
    CASE file.state = "ok" -> [raised |-> FALSE, knowledge_base |-> file.entries]
      [] file.state \in {"missing", "badjson"} ->
            [raised |-> FALSE, knowledge_base |-> <<>>]
      [] OTHER -> [raised |-> TRUE, knowledge_base |-> <<>>]

load_from_file(current, file) ==
    CASE file.state = "ok" -> [raised |-> FALSE, knowledge_base |-> file.entries]
      [] file.state \in {"missing", "badjson"} ->
            [raised |-> FALSE, knowledge_base |-> current]
      [] OTHER -> [raised |-> TRUE, knowledge_base |-> current]

---------------------------------------------------------------------------
(* similarity/algorithms.py: SimilarityAlgorithms *)

ALGORITHM_COSINE == "cosine"

\* raises ValueError for any other name
CalculateRaises(algorithm) == algorithm # ALGORITHM_COSINE

calculate_similarity(t1, t2, algorithm) == compute_cosine_similarity(t1, t2)

---------------------------------------------------------------------------
(* similarity/service.py: SimilarityService *)

\* SimilarityService.__init__: the load is wrapped in a bare except
SimilarityService(threshold, algorithm, file) ==
    [threshold |-> threshold,
     algorithm |-> algorithm,
     knowledge_base |-> load_from_file(DefaultKnowledgeBase, file).knowledge_base]

\* the insertion of a sort that puts a match before the earlier ones of equal
\* score
RECURSIVE InsertByScore_Unstable(_, _)
InsertByScore_Unstable(sorted, m) ==
    IF sorted = <<>> THEN <<m>>
    ELSE IF RealGt(sorted[1].similarity_score, m.similarity_score)
         THEN <<sorted[1]>> \o InsertByScore_Unstable(Tail(sorted), m)
         ELSE <<m>> \o sorted

\* list.sort(key = similarity_score, reverse = True): stable
RECURSIVE InsertByScore(_, _)
InsertByScore(sorted, m) ==
    IF sorted = <<>> THEN <<m>>
    ELSE IF RealGeq(sorted[1].similarity_score, m.similarity_score)
         THEN <<sorted[1]>> \o InsertByScore(Tail(sorted), m)
         ELSE <<m>> \o sorted

RECURSIVE SortByScore(_)
SortByScore(ms) ==
    IF ms = <<>> THEN <<>>
    ELSE InsertByScore(SortByScore(SubSeq(ms, 1, Len(ms) - 1)), ms[Len(ms)])

\* the candidates of find_similar in load order: every entry with score > 0
\* lines 92-103: the SimilarityResult of an entry, kept when its score is > 0
\* the result of an entry kept whatever its score
Candidate_KeepsZero(e, sim) ==
    <<[entry_id |-> e.id,
       question |-> e.question,
       answer |-> e.answer,
       similarity_score |-> sim,
       confidence |-> sim]>>

Candidate(e, sim) ==
    IF RealGt(sim, Zero)
    THEN <<[entry_id |-> e.id,
            question |-> e.question,
            answer |-> e.answer,
            similarity_score |-> sim,
            confidence |-> sim]>>
    ELSE <<>>

RECURSIVE Candidates(_, _, _)
Candidates(entries, query, algorithm) ==
    IF entries = <<>> THEN <<>>
    ELSE Candidate(entries[1],
                   calculate_similarity(query, entries[1].question, algorithm))
         \o Candidates(Tail(entries), query, algorithm)

\* SimilarityService.find_similar: a SimilarityResponse, or ValueError raised by
\* the first calculate_similarity call
\* lines 108-116: the best match is the first candidate when it reaches the
\* threshold
\* the response naming the top-ranked candidate whatever its confidence
SimilarityResponse_AlwaysTop(all_matches, threshold) ==
    [raised |-> FALSE,
     best_match |-> IF all_matches # <<>> THEN Some(all_matches[1]) ELSE None,
     all_matches |-> all_matches]

SimilarityResponse(all_matches, threshold) ==
    [raised |-> FALSE,
     best_match |->
         IF all_matches # <<>> /\ RealGeq(all_matches[1].confidence, threshold)
         THEN Some(all_matches[1])
         ELSE None,
     all_matches |-> all_matches]

find_similar(service, query) ==
    IF service.knowledge_base # <<>> /\ CalculateRaises(service.algorithm)
    THEN [raised |-> TRUE, best_match |-> None, all_matches |-> <<>>]
    ELSE SimilarityResponse(
             SortByScore(Candidates(service.knowledge_base, query,
                                    service.algorithm)),
             service.threshold)

---------------------------------------------------------------------------
(* similarity/models.py *)

\* SimilarityRequest.__post_init__ raises ValueError
RequestInvalid(question) == question = <<>> \/ str_strip(question) = <<>>

MatchToDict(m) ==
    [entry |-> [id |-> m.entry_id, question |-> m.question, answer |-> m.answer],
     similarity_score |-> m.similarity_score,
     confidence |-> m.confidence]

\* SimilarityResponse.to_dict: each key only when its value is truthy
SimilarityResponseToDict(r) ==
    LET all == [i \in 1..Len(r.all_matches) |-> MatchToDict(r.all_matches[i])]
    IN  CASE r.best_match # None /\ r.all_matches # <<>> ->
                 [best_match |-> MatchToDict(r.best_match[1]), all_matches |-> all]
          [] r.best_match # None /\ r.all_matches = <<>> ->
                 [best_match |-> MatchToDict(r.best_match[1])]
          [] r.best_match = None /\ r.all_matches # <<>> ->
                 [all_matches |-> all]
          [] OTHER -> <<>>

---------------------------------------------------------------------------
(* similarity/main.py *)

DefaultThreshold == Real(49, 100)    \* 0.7

MISSING_QUESTION == [error |-> "Missing required parameter: question"]

\* main(args) of the similarity action, reading the knowledge file `file`
\* lines 30-42: the reply for what find_similar returned or raised
SimilarityReply(found, algorithm) ==
    IF found.raised
    THEN [error |-> "Invalid request: Unknown algorithm: " \o algorithm]
    ELSE SimilarityResponseToDict(found)

\* main(args) of the similarity action, reading the knowledge file `file`
similarity_main(args_, file) ==
    IF args_.question = None \/ args_.question[1] = <<>>
    THEN MISSING_QUESTION
    ELSE IF RequestInvalid(args_.question[1])
    THEN [error |-> "Invalid request: Question cannot be empty"]
    ELSE SimilarityReply(
             find_similar(
                 SimilarityService(GetOr(args_.threshold, DefaultThreshold),
                                   GetOr(args_.algorithm, "cosine"), file),
                 args_.question[1]),
             GetOr(args_.algorithm, "cosine"))

---------------------------------------------------------------------------
(* Inputs of a request *)

PyBool(b) == [type |-> "bool", val |-> b]
PyStr(s) == [type |-> "str", val |-> s]
PyInt(n) == [type |-> "int", val |-> n]

\* args: the question and ALWAYS_CALL_LLM of the orchestrator, the threshold
\* and algorithm of the similarity action; each key may be absent
Args(question, flag, threshold, algorithm) ==
    [question |-> question, ALWAYS_CALL_LLM |-> flag,
     threshold |-> threshold, algorithm |-> algorithm]

Questions ==
    {None, Some(<<>>), Some(QBlank), Some(QReset), Some(QResetPw),
     Some(QHowResetPw)}

FlagValues ==
    {None, Some(PyBool(TRUE)), Some(PyBool(FALSE)), Some(PyStr(StrUpperTrue)),
     Some(PyStr(StrFalse)), Some(PyInt(1))}

\* os.getenv("ALWAYS_CALL_LLM")
EnvValues == {None, Some(StrTrue), Some(StrFalse)}

Threshold09 == Real(81, 100)    \* 0.9

EntryPoints == {"top", "orch", "sim"}

\* the arguments each entry point reads
ArgsOf(e) ==
    IF e = "sim"
    THEN {Args(q, None, t, a) :
            q \in Questions, t \in {None, Some(Threshold09)},
            a \in {None, Some("jaccard")}}
    ELSE {Args(q, f, None, None) : q \in Questions, f \in FlagValues}

---------------------------------------------------------------------------
(* config/helpdesk-config.yaml *)

ConfigData(threshold, algorithm, phrases) ==
    [similarity |-> [threshold |-> threshold, algorithm |-> algorithm],
     prompts |-> [escalation_phrases |-> phrases]]

NoData == ConfigData(None, None, None)

\* the file is absent, empty, holds YAML that is no mapping, or a mapping
ConfigFile(state, data) == [state |-> state, data |-> data]

ConfigFiles ==
    {ConfigFile("missing", NoData), ConfigFile("empty", NoData),
     ConfigFile("notdict", NoData),
     ConfigFile("ok", ConfigData(Some(DefaultThreshold), Some("cosine"),
                                 Some(<<ContactSupport>>))),
     ConfigFile("ok", ConfigData(Some(Threshold09), None, None)),
     ConfigFile("ok", ConfigData(None, Some("jaccard"), None))}

---------------------------------------------------------------------------
(* orchestrator/config.py *)

\* AppConfig.from_yaml: open() raises on a missing file, data.get on None or
\* on a value that is no mapping; the dataclass defaults fill absent keys
from_yaml(file) ==
    IF file.state # "ok"
    THEN [raised |-> TRUE, config |-> None]
    ELSE [raised |-> FALSE,
          config |-> Some(
              [similarity |->
                   [threshold |-> GetOr(file.data.similarity.threshold,
                                        DefaultThreshold),
                    algorithm |-> GetOr(file.data.similarity.algorithm, "cosine")],
               prompts |->
                   [escalation_phrases |->
                        GetOr(file.data.prompts.escalation_phrases,
                              <<ContactSupport, SpeakToHuman>>)]])]

\* load_config reading the file on every call
load_config_Reloads(loaded, file) == from_yaml(file)

\* ConfigManager.load_config on the singleton whose _config is `loaded`
load_config(loaded, file) ==
    IF loaded # None
    THEN [raised |-> FALSE, config |-> loaded]
    ELSE from_yaml(file)

---------------------------------------------------------------------------
(* orchestrator/models *)

\* HelpdeskRequest.__post_init__ raises ValueError
HelpdeskRequestInvalid(question) ==
    question = <<>> \/ str_strip(question) = <<>>

HelpdeskResponse(answer, source, confidence, escalate, time) ==
    [answer |-> answer, source |-> source, confidence |-> confidence,
     escalate_to_human |-> escalate, response_time_ms |-> time]

\* HelpdeskResponse.to_dict(question)
to_dict(r, question) ==
    [question |-> question,
     answer |-> r.answer,
     escalation |-> r.escalate_to_human,
     confidence |-> r.confidence,
     source |-> r.source,
     response_time_ms |-> r.response_time_ms]

\* KnowledgeBestMatch.is_confident_match
is_confident_match(match, threshold) == RealGeq(match.confidence, threshold)

\* a confidence that is JSON null: no number
NullConfidence == [num |-> 0, den |-> 0, ulp |-> 0]

\* self.confidence >= threshold raises TypeError on None
IsConfidentMatchRaises(match) == match.confidence = NullConfidence

---------------------------------------------------------------------------
(* orchestrator/engine.py *)

\* truth value of a request parameter after the str conversion of __init__
ParamTruthy(p) ==
    CASE p.type = "bool" -> p.val
      [] p.type = "str" -> str_lower(p.val) = StrTrue
      [] OTHER -> p.val # 0

\* HelpdeskEngine.__init__: self.always_call_llm
EngineAlwaysCallLlm(args_, env_) ==
    LET param == IF args_.ALWAYS_CALL_LLM = None
                 THEN FALSE
                 ELSE ParamTruthy(args_.ALWAYS_CALL_LLM[1])
    IN  param \/ str_lower(GetOr(env_, <<>>)) = StrTrue

\* how the similarity action behind the engine's URL answers
MatcherModes == {"service", "other", "unreachable", "malformed", "mistyped"}

\* the stored entry with this id
EntryById(entries, id) ==
    entries[CHOOSE i \in DOMAIN entries : entries[i].id = id]

\* the reply of a matcher that returns its top-ranked candidate whatever the
\* threshold, with the entry's escalation flag when the entry stores one, and
\* with a similarity_score (1.0 for the top rank) that is not its confidence
OtherBestMatch(top, stored) ==
    IF stored.escalation = None
    THEN [best_match |->
              [entry |-> [id |-> top.entry_id, question |-> top.question,
                          answer |-> top.answer],
               similarity_score |-> One,
               confidence |-> top.confidence]]
    ELSE [best_match |->
              [entry |-> [id |-> top.entry_id, question |-> top.question,
                          answer |-> top.answer,
                          escalation |-> stored.escalation[1]],
               similarity_score |-> One,
               confidence |-> top.confidence]]

OtherReplyOf(kb, ranked) ==
    IF ranked = <<>> THEN <<>>
    ELSE OtherBestMatch(ranked[1], EntryById(kb, ranked[1].entry_id))

OtherMatcherReply(question, file) ==
    OtherReplyOf(load_from_file(DefaultKnowledgeBase, file).knowledge_base,
                 SortByScore(Candidates(
                     load_from_file(DefaultKnowledgeBase, file).knowledge_base,
                     question, ALGORITHM_COSINE)))

\* a reply whose best_match has every key but a null confidence
MistypedReplyOf(reply) ==
    IF "best_match" \in DOMAIN reply
    THEN [reply EXCEPT !.best_match.confidence = NullConfidence]
    ELSE reply

\* the body of the HTTP reply, None when the call raised or the body is unusable
MatcherData(question, cfg, mode, file) ==
    CASE mode = "service" ->
            Some(similarity_main(Args(Some(question),
                                      None,
                                      Some(cfg.similarity.threshold),
                                      Some(cfg.similarity.algorithm)), file))
      [] mode = "other" -> Some(OtherMatcherReply(question, file))
      [] mode = "mistyped" ->
            Some(MistypedReplyOf(OtherMatcherReply(question, file)))
      [] OTHER -> None

\* entry.get('escalation', False)
EscalationOf(e) ==
    IF "escalation" \in DOMAIN e THEN e.escalation ELSE FALSE

\* lines 110-122: the KnowledgeBestMatch built from the reply's best_match
KnowledgeBestMatch(match_data) ==
    [entry |-> [id |-> match_data.entry.id,
                question |-> match_data.entry.question,
                answer |-> match_data.entry.answer,
                escalation |-> EscalationOf(match_data.entry)],
     similarity_score |-> match_data.similarity_score,
     confidence |-> match_data.confidence]

\* lines 105-127: every exception, and a reply without best_match, give None
ParseMatcherData(data) ==
    IF data = None \/ "best_match" \notin DOMAIN data[1]
    THEN None
    ELSE Some(KnowledgeBestMatch(data[1].best_match))

\* HelpdeskEngine._find_best_match
find_best_match(question, cfg, mode, file) ==
    ParseMatcherData(MatcherData(question, cfg, mode, file))

\* line 48 without the confidence test
UseKb_NoThreshold(always_, best_match, threshold) ==
    /\ ~always_
    /\ best_match # None

\* line 48 without the always_call_llm test
UseKb_IgnoresFlag(always_, best_match, threshold) ==
    /\ best_match # None
    /\ is_confident_match(best_match[1], threshold)

\* line 48: the KB answer is used
UseKb(always_, best_match, threshold) ==
    /\ ~always_
    /\ best_match # None
    /\ is_confident_match(best_match[1], threshold)

\* line 48: the test raises when it reaches is_confident_match on a null
\* confidence
RouteRaises(always_, best_match) ==
    /\ ~always_
    /\ best_match # None
    /\ IsConfidentMatchRaises(best_match[1])

KbResponse(match) ==
    HelpdeskResponse(match.entry.answer, "kb", Some(match.confidence),
                     match.entry.escalation, Some(0))

FallbackResponse ==
    HelpdeskResponse(FALLBACK_ANSWER, "fallback", None, TRUE, Some(0))

\* what the call of the LLM action gives: a 200 reply with an answer string,
\* with "answer": null, or without the key; another status; an exception
\* (connection error, timeout, HTTP error, undecodable body)
LlmReply(kind, answer) == [kind |-> kind, answer |-> answer]

LlmAnswers == {LlmHelp, LlmContact}

LlmReplies ==
    {LlmReply("answer", a) : a \in LlmAnswers}
    \cup {LlmReply(k, <<>>) :
            k \in {"null_answer", "no_answer", "not_200", "exception"}}

LlmFailed(reply) == reply.kind # "answer"

\* the request sent to the LLM: `if context:` adds the context
LlmPayload(question, context) ==
    [question |-> question,
     context |-> IF context # None /\ context[1] # <<>> THEN context ELSE None]

\* HelpdeskEngine._get_llm_response: the HelpdeskResponse it returns (it never
\* raises); answer None is Python's None
get_llm_response(reply) ==
    CASE reply.kind = "answer" -> [answer |-> Some(reply.answer), source |-> "llm"]
      [] reply.kind = "null_answer" -> [answer |-> None, source |-> "llm"]
      [] reply.kind = "no_answer" ->
            [answer |-> Some(FALLBACK_ANSWER), source |-> "llm"]
      [] OTHER -> [answer |-> Some(FALLBACK_ANSWER), source |-> "fallback"]

\* HelpdeskEngine._should_escalate
\* the scan with the phrase taken as configured, not lower-cased
should_escalate_PhraseAsWritten(answer, phrases) ==
    \E i \in DOMAIN phrases :
        str_contains(str_lower(answer), phrases[i])

should_escalate(answer, phrases) ==
    \E i \in DOMAIN phrases :
        str_contains(str_lower(answer), str_lower(phrases[i]))

\* the LLM path taking the matched entry's escalation flag when there is a
\* match, as the knowledge-base path does
LlmPathResponse_EntryFlag(best_match, llm_response, phrases) ==
    IF llm_response.answer = None
    THEN FallbackResponse
    ELSE HelpdeskResponse(
             llm_response.answer[1], "llm",
             IF best_match # None THEN Some(best_match[1].confidence) ELSE None,
             IF best_match # None THEN best_match[1].entry.escalation
             ELSE should_escalate(llm_response.answer[1], phrases),
             Some(0))

\* process_question, lines 58-82: answer.lower() raises on None and the
\* handler returns the fallback response
LlmPathResponse(best_match, llm_response, phrases) ==
    IF llm_response.answer = None
    THEN FallbackResponse
    ELSE HelpdeskResponse(
             llm_response.answer[1], "llm",
             IF best_match # None THEN Some(best_match[1].confidence) ELSE None,
             should_escalate(llm_response.answer[1], phrases),
             Some(0))

---------------------------------------------------------------------------
(* Outcome of a call: a returned value, or an exception leaving the function *)

Returned(v) == [raised |-> FALSE, value |-> Some(v)]
Raised == [raised |-> TRUE, value |-> None]
NoOutcome == [raised |-> FALSE, value |-> None]

\* process_question, lines 74-82: the handler of every exception
ProcessQuestionExcept == Returned(FallbackResponse)

\* process_question, lines 58-82
LlmPathOutcome(best_match, llm_response, phrases) ==
    IF llm_response.answer = None
    THEN ProcessQuestionExcept
    ELSE Returned(LlmPathResponse(best_match, llm_response, phrases))

---------------------------------------------------------------------------
(* orchestrator/main.py *)

\* main without its handler: the exception leaves main
OrchMainExcept_Propagates(message) == Raised

\* lines 40-47: the handler of every exception
OrchMainExcept(message) ==
    Returned([error |-> "Internal server error: " \o message,
              answer |-> ERROR_ANSWER,
              source |-> "error",
              escalate_to_human |-> TRUE,
              response_time_ms |-> 0])

---------------------------------------------------------------------------
(* __main__.py *)

TopDefaultConfig ==
    ConfigData(Some(DefaultThreshold), Some("cosine"),
               Some(<<ContactSupport, SpeakToHuman, HumanAssistance>>))

\* load_config(): the parsed file when it is truthy, the defaults on any error
top_load_config(file) ==
    CASE file.state = "ok" -> [isdict |-> TRUE, data |-> file.data]
      [] file.state = "notdict" -> [isdict |-> FALSE, data |-> NoData]
      [] OTHER -> [isdict |-> TRUE, data |-> TopDefaultConfig]

\* main, lines 61-66: the values main takes from the configuration
TopSettings(data) ==
    [similarity |->
         [threshold |-> GetOr(data.similarity.threshold, DefaultThreshold),
          algorithm |-> GetOr(data.similarity.algorithm, "cosine")],
     prompts |->
         [escalation_phrases |->
              GetOr(data.prompts.escalation_phrases, <<ContactSupport>>)]]

\* main, lines 195-201: the handler of every exception
TopMainExcept(message) ==
    Returned([error |-> "System error: " \o message,
              answer |-> SYSTEM_ERROR_ANSWER,
              source |-> "error",
              escalate_to_human |-> TRUE])

\* main, lines 72-84; the two getenv/get defaults are '' and so of type str
TopAlwaysCallLlm(args_, env_) ==
    LET arg == GetOr(args_.ALWAYS_CALL_LLM, PyStr(<<>>))
    IN  CASE arg.type = "bool" -> arg.val
          [] arg.type = "str" -> str_lower(arg.val) = StrTrue
          [] OTHER -> str_lower(GetOr(env_, <<>>)) = StrTrue

\* set(text.lower().split())
WordSet(text) ==
    LET words == str_split(str_lower(text))
    IN  {words[i] : i \in DOMAIN words}

MinScore == Real(9, 100)    \* 0.3

\* len(common_words) / len(entry_words) if entry_words else 0
Ratio(common, n) == IF n = 0 THEN Zero ELSE Real(common * common, n * n)

TopScore(question_words, e) ==
    Ratio(Cardinality(question_words \cap WordSet(e.question)),
          Cardinality(WordSet(e.question)))

\* main, lines 105-112: the loop over the knowledge base
\* line 110: the entry replaces the best one found so far
TopBetter(found, e, score) ==
    IF RealGt(score, found.score) /\ RealGeq(score, MinScore)
    THEN [match |-> Some(e), score |-> score]
    ELSE found

RECURSIVE TopScan(_, _, _)
TopScan(entries, question_words, found) ==
    IF entries = <<>> THEN found
    ELSE TopScan(Tail(entries), question_words,
                 TopBetter(found, entries[1],
                           TopScore(question_words, entries[1])))

\* main, lines 87-122: similarity_result and confidence; a knowledge file
\* that cannot be loaded leaves similarity_result None
\* lines 114-116
TopAccept(found, threshold) ==
    IF found.match # None /\ RealGeq(found.score, threshold)
    THEN Some([entry |-> found.match[1],
               similarity_score |-> found.score,
               confidence |-> found.score])
    ELSE None

TopSimilarityResult(question, file, threshold) ==
    IF file.state = "ok"
    THEN TopAccept(TopScan(file.entries, WordSet(question),
                           [match |-> None, score |-> Zero]),
                   threshold)
    ELSE None

\* main, line 125: the KB answer is returned
TopUseKb(always_, similarity_result, threshold) ==
    /\ ~always_
    /\ similarity_result # None
    /\ RealGeq(similarity_result[1].confidence, threshold)

\* main, lines 126-132
TopKbResult(question, match) ==
    [question |-> question,
     answer |-> match.entry.answer,
     source |-> "kb",
     confidence |-> Some(match.confidence),
     escalate_to_human |-> GetOr(match.entry.escalation, FALSE)]

LlmConfidence == Real(81, 100)    \* 0.9

\* main, lines 135-193: any failure of the call or of reading its reply is
\* caught at line 184 and main returns the error record
TopLlmResult(question, similarity_result, always_, phrases, reply) ==
    IF reply.kind = "answer"
    THEN [question |-> question,
          answer |-> reply.answer,
          source |-> "llm",
          confidence |-> Some(LlmConfidence),
          escalate_to_human |-> should_escalate(reply.answer, phrases),
          always_call_llm |-> always_,
          kb_match_found |-> similarity_result # None]
    ELSE [question |-> question,
          answer |-> ERROR_ANSWER,
          source |-> "error",
          escalate_to_human |-> TRUE]

---------------------------------------------------------------------------
(* State of the orchestrator process and of the request in progress *)

IdleArgs == Args(None, None, None, None)

RequestIdle ==
    /\ entry = "none"
    /\ args = IdleArgs
    /\ env = None
    /\ config = None
    /\ always = FALSE
    /\ best = None
    /\ kbRead = None
    /\ kbFile = None
    /\ matcherMode = "none"
    /\ llmReply = None
    /\ llmCalls = <<>>
    /\ trace = <<>>
    /\ response = NoOutcome
    /\ result = NoOutcome

CosIdle ==
    /\ text1 = <<>>
    /\ text2 = <<>>
    /\ cosPc = "off"
    /\ similarity = Zero

EscIdle ==
    /\ escAnswer = <<>>
    /\ escPhrases = <<>>
    /\ escPc = "off"
    /\ escResult = FALSE

Init ==
    /\ pc = "idle"
    /\ cmConfig = None
    /\ RequestIdle
    /\ CosIdle
    /\ EscIdle

\* the question of the request in progress
Question == GetOr(args.question, <<>>)

\* the function returns or raises: the request is over
Finished(outcome) ==
    /\ result' = outcome
    /\ pc' = "done"

Continue(next) ==
    /\ pc' = next
    /\ UNCHANGED result

\* a request arrives at one of the entry points
Invoke ==
    /\ pc = "idle"
    /\ \E e \in EntryPoints, v \in EnvValues :
        /\ e = "sim" => v = None
        /\ \E a \in ArgsOf(e) :
            /\ entry' = e
            /\ args' = a
            /\ env' = v
        /\ pc' = CASE e = "top" -> "top_config"
                   [] e = "orch" -> "orch_config"
                   [] OTHER -> "sim_main"
    /\ UNCHANGED <<cmConfig, config, always, best, kbRead, kbFile, matcherMode,
                   llmReply, llmCalls, trace, response, result, cosVars,
                   escVars>>

---------------------------------------------------------------------------
(* __main__.py: main *)

\* lines 57-66
TopLoadConfig ==
    /\ pc = "top_config"
    /\ \E file \in ConfigFiles :
        LET loaded == top_load_config(file)
        IN  /\ trace' = Append(trace, "config")
            /\ IF loaded.isdict
               THEN /\ config' = Some(TopSettings(loaded.data))
                    /\ Continue("top_validate")
               ELSE /\ Finished(TopMainExcept("'list' object has no attribute 'get'"))
                    /\ UNCHANGED config
    /\ UNCHANGED <<entry, args, env, cmConfig, always, best, kbRead, kbFile,
                   matcherMode, llmReply, llmCalls, response, cosVars,
                   escVars>>

\* lines 68-84
TopValidate ==
    /\ pc = "top_validate"
    /\ IF Question = <<>>
       THEN /\ Finished(Returned(MISSING_QUESTION))
            /\ UNCHANGED always
       ELSE /\ always' = TopAlwaysCallLlm(args, env)
            /\ Continue("top_match")
    /\ UNCHANGED <<entry, args, env, cmConfig, config, best, kbRead, kbFile,
                   matcherMode, llmReply, llmCalls, trace, response, cosVars,
                   escVars>>

\* lines 86-132
TopMatch ==
    /\ pc = "top_match"
    /\ \E file \in KbFiles :
        /\ trace' = Append(trace, "kb")
        /\ kbRead' = IF file.state = "ok" THEN Some(file.entries) ELSE None
        /\ kbFile' = Some(file)
        /\ best' = TopSimilarityResult(Question, file,
                                       config[1].similarity.threshold)
    /\ IF TopUseKb(always, best', config[1].similarity.threshold)
       THEN Finished(Returned(TopKbResult(Question, best'[1])))
       ELSE Continue("top_llm")
    /\ UNCHANGED <<entry, args, env, cmConfig, config, always, matcherMode,
                   llmReply, llmCalls, response, cosVars,
                   escVars>>

\* lines 134-193
TopCallLlm ==
    /\ pc = "top_llm"
    /\ \E reply \in LlmReplies :
        /\ llmReply' = Some(reply)
        /\ llmCalls' = Append(llmCalls,
               [question |-> Question,
                context |-> IF best # None THEN Some(best[1].entry.answer)
                            ELSE None])
        /\ trace' = Append(trace, "llm")
        /\ Finished(Returned(TopLlmResult(Question, best, always,
               config[1].prompts.escalation_phrases, reply)))
    /\ UNCHANGED <<entry, args, env, cmConfig, config, always, best, kbRead, kbFile,
                   matcherMode, response, cosVars,
                   escVars>>

---------------------------------------------------------------------------
(* orchestrator/main.py: main, and the engine it runs *)

\* lines 16-18: ConfigManager().load_config()
OrchLoadConfig ==
    /\ pc = "orch_config"
    /\ \E file \in ConfigFiles :
        LET loaded == load_config(cmConfig, file)
        IN  /\ trace' = IF cmConfig = None THEN Append(trace, "config") ELSE trace
            /\ IF loaded.raised
               THEN /\ Finished(OrchMainExcept("configuration file"))
                    /\ UNCHANGED cmConfig
               ELSE /\ cmConfig' = loaded.config
                    /\ Continue("orch_validate")
    /\ UNCHANGED <<entry, args, env, config, always, best, kbRead, kbFile,
                   matcherMode, llmReply, llmCalls, response, cosVars,
                   escVars>>

\* lines 20-30
OrchValidate ==
    /\ pc = "orch_validate"
    /\ IF Question = <<>>
       THEN Finished(Returned(MISSING_QUESTION))
       ELSE IF HelpdeskRequestInvalid(Question)
       THEN Finished(OrchMainExcept("Question cannot be empty"))
       ELSE Continue("engine_init")
    /\ UNCHANGED <<entry, args, env, cmConfig, config, always, best, kbRead, kbFile,
                   matcherMode, llmReply, llmCalls, trace, response, cosVars,
                   escVars>>

\* line 33 and engine.py lines 23-33: HelpdeskEngine(args)
EngineInit ==
    /\ pc = "engine_init"
    /\ IF cmConfig = None
       THEN /\ Finished(OrchMainExcept("Configuration not loaded. Call load_config() first."))
            /\ UNCHANGED <<config, always>>
       ELSE /\ config' = cmConfig
            /\ always' = EngineAlwaysCallLlm(args, env)
            /\ Continue("engine_match")
    /\ UNCHANGED <<entry, args, env, cmConfig, best, kbRead, kbFile, matcherMode,
                   llmReply, llmCalls, trace, response, cosVars,
                   escVars>>

\* engine.py lines 42-44: _find_best_match
EngineFindBestMatch ==
    /\ pc = "engine_match"
    /\ \E mode \in MatcherModes, file \in KbFiles :
        /\ matcherMode' = mode
        /\ kbRead' = IF mode \in {"service", "other", "mistyped"}
                     THEN Some(load_from_file(DefaultKnowledgeBase,
                                              file).knowledge_base)
                     ELSE None
        /\ kbFile' = IF mode \in {"service", "other", "mistyped"}
                     THEN Some(file)
                     ELSE None
        /\ best' = find_best_match(Question, config[1], mode, file)
    /\ trace' = Append(trace, "matcher")
    /\ Continue("engine_route")
    /\ UNCHANGED <<entry, args, env, cmConfig, config, always, llmReply,
                   llmCalls, response, cosVars,
                   escVars>>

\* engine.py lines 46-56
EngineRoute ==
    /\ pc = "engine_route"
    /\ IF RouteRaises(always, best)
       THEN /\ response' = ProcessQuestionExcept
            /\ Continue("orch_return")
       ELSE IF UseKb(always, best, config[1].similarity.threshold)
       THEN /\ response' = Returned(KbResponse(best[1]))
            /\ Continue("orch_return")
       ELSE /\ Continue("engine_llm")
            /\ UNCHANGED response
    /\ UNCHANGED <<entry, args, env, cmConfig, config, always, best, kbRead, kbFile,
                   matcherMode, llmReply, llmCalls, trace, cosVars,
                   escVars>>

\* the LLM step calling the LLM a second time after a failed first call
EngineCallLlm_RetriesOnce ==
    /\ pc = "engine_llm"
    /\ \E reply \in LlmReplies :
        /\ llmReply' = Some(reply)
        /\ llmCalls' = Append(llmCalls,
               LlmPayload(Question,
                          IF best # None THEN Some(best[1].entry.answer)
                          ELSE None))
        /\ IF LlmFailed(reply) /\ llmCalls = <<>>
           THEN /\ Continue("engine_llm")
                /\ UNCHANGED response
           ELSE /\ response' = LlmPathOutcome(best, get_llm_response(reply),
                                              config[1].prompts.escalation_phrases)
                /\ Continue("orch_return")
    /\ trace' = Append(trace, "llm")
    /\ UNCHANGED <<entry, args, env, cmConfig, config, always, best, kbRead,
                   kbFile, matcherMode, cosVars, escVars>>

\* engine.py lines 58-82
EngineCallLlm ==
    /\ pc = "engine_llm"
    /\ \E reply \in LlmReplies :
        /\ llmReply' = Some(reply)
        /\ llmCalls' = Append(llmCalls,
               LlmPayload(Question,
                          IF best # None THEN Some(best[1].entry.answer)
                          ELSE None))
        /\ response' = LlmPathOutcome(best, get_llm_response(reply),
                                      config[1].prompts.escalation_phrases)
    /\ trace' = Append(trace, "llm")
    /\ Continue("orch_return")
    /\ UNCHANGED <<entry, args, env, cmConfig, config, always, best, kbRead, kbFile,
                   matcherMode, cosVars,
                   escVars>>

\* main.py lines 36-38, and 40-47 when process_question raised
OrchReturn ==
    /\ pc = "orch_return"
    /\ IF response.raised
       THEN Finished(OrchMainExcept("process_question"))
       ELSE Finished(Returned(to_dict(response.value[1], Question)))
    /\ UNCHANGED <<entry, args, env, cmConfig, config, always, best, kbRead, kbFile,
                   matcherMode, llmReply, llmCalls, trace, response, cosVars,
                   escVars>>

---------------------------------------------------------------------------
(* similarity/main.py: main *)

SimMain ==
    /\ pc = "sim_main"
    /\ \E file \in KbFiles :
        LET read == Question # <<>> /\ ~RequestInvalid(Question)
        IN  /\ trace' = IF read THEN Append(trace, "kb") ELSE trace
            /\ kbRead' = IF read
                         THEN Some(load_from_file(DefaultKnowledgeBase,
                                                  file).knowledge_base)
                         ELSE None
            /\ kbFile' = IF read THEN Some(file) ELSE None
            /\ Finished(Returned(similarity_main(args, file)))
    /\ UNCHANGED <<entry, args, env, cmConfig, config, always, best,
                   matcherMode, llmReply, llmCalls, response, cosVars,
                   escVars>>

---------------------------------------------------------------------------

\* the caller has the result; the process waits for the next request
Finish ==
    /\ pc = "done"
    /\ pc' = "idle"
    /\ entry' = "none"
    /\ args' = IdleArgs
    /\ env' = None
    /\ config' = None
    /\ always' = FALSE
    /\ best' = None
    /\ kbRead' = None
    /\ kbFile' = None
    /\ matcherMode' = "none"
    /\ llmReply' = None
    /\ llmCalls' = <<>>
    /\ trace' = <<>>
    /\ response' = NoOutcome
    /\ result' = NoOutcome
    /\ UNCHANGED <<cmConfig, cosVars,
                   escVars>>

Next ==
    \/ Invoke
    \/ TopLoadConfig
    \/ TopValidate
    \/ TopMatch
    \/ TopCallLlm
    \/ OrchLoadConfig
    \/ OrchValidate
    \/ EngineInit
    \/ EngineFindBestMatch
    \/ EngineRoute
    \/ EngineCallLlm
    \/ OrchReturn
    \/ SimMain
    \/ Finish

Spec == Init /\ [][Next]_vars

---------------------------------------------------------------------------
(* One call of compute_cosine_similarity on bounded texts *)

CosInit ==
    /\ pc = "off"
    /\ cmConfig = None
    /\ RequestIdle
    /\ text1 \in Texts
    /\ text2 \in Texts
    /\ cosPc = "call"
    /\ similarity = Zero
    /\ EscIdle

CosCompute ==
    /\ cosPc = "call"
    /\ similarity' = compute_cosine_similarity(text1, text2)
    /\ cosPc' = "returned"
    /\ UNCHANGED <<text1, text2, pc, entry, args, env, cmConfig, config, always,
                   best, kbRead, kbFile, matcherMode, llmReply, llmCalls, trace,
                   response, result, escVars>>

CosNext == CosCompute

SpecCos == CosInit /\ [][CosNext]_vars

---------------------------------------------------------------------------
(* One call of _should_escalate on a bounded answer and phrase list *)

\* escalation phrases the configuration may hold
EscPhrases == {<<>>, <<"a">>, <<"A", "b">>, <<"b", " ">>, <<"?">>}

PhraseLists == UNION {[1..n -> EscPhrases] : n \in 0..MaxPhrases}

EscInit ==
    /\ pc = "off"
    /\ cmConfig = None
    /\ RequestIdle
    /\ CosIdle
    /\ escAnswer \in Texts
    /\ escPhrases \in PhraseLists
    /\ escPc = "call"
    /\ escResult = FALSE

EscCompute ==
    /\ escPc = "call"
    /\ escResult' = should_escalate(escAnswer, escPhrases)
    /\ escPc' = "returned"
    /\ UNCHANGED <<escAnswer, escPhrases, pc, entry, args, env, cmConfig,
                   config, always, best, kbRead, kbFile, matcherMode, llmReply,
                   llmCalls, trace, response, result, cosVars>>

EscNext == EscCompute

SpecEsc == EscInit /\ [][EscNext]_vars

---------------------------------------------------------------------------
(* Properties *)

\* process_question has returned: its HelpdeskResponse is in `response`
EngineDone == pc = "orch_return" /\ ~response.raised /\ response.value # None

EngineResponse == response.value[1]

Threshold == config[1].similarity.threshold

ConfidentMatch ==
    /\ best # None
    /\ best[1].confidence # NullConfidence
    /\ RealGeq(best[1].confidence, Threshold)

\* an entry point has returned a record to its caller
MainDone == pc = "done" /\ ~result.raised /\ result.value # None

MainResult == result.value[1]

InTrace(step) == \E i \in DOMAIN trace : trace[i] = step

\* C1: process_question ends with source 'kb' exactly when always_call_llm is
\* false, the matcher returned a best match and the match's confidence is >=
\* the configured threshold; the answer is then the entry's answer and the
\* confidence is the match's confidence; a threshold above the match's
\* confidence sends the request to the LLM instead.
C1_KbExactlyWhenConfident ==
    pc = "orch_return" =>
        /\ EngineDone
        /\ (EngineResponse.source = "kb") <=> (~always /\ ConfidentMatch)
        /\ EngineResponse.source = "kb" =>
               /\ EngineResponse.answer = best[1].entry.answer
               /\ EngineResponse.confidence = Some(best[1].confidence)
               /\ llmCalls = <<>>
        /\ (best # None /\ RealGt(Threshold, best[1].confidence)) =>
               /\ EngineResponse.source # "kb"
               /\ Len(llmCalls) = 1

\* a KB answer whose confidence (not its similarity_score) lies between the
\* thresholds 0.7 and 0.9: the same request is not answered from the KB at 0.9
C1_Witness ==
    /\ EngineDone
    /\ EngineResponse.source = "kb"
    /\ best[1].similarity_score # best[1].confidence
    /\ RealGt(Threshold09, best[1].confidence)
    /\ EngineResponse.confidence = Some(best[1].confidence)

\* C2: whenever the LLM call failed, process_question ends with source
\* 'fallback', the fixed apology as answer and escalate_to_human = true.
C2_FailedLlmGivesFallback ==
    (EngineDone /\ llmReply # None /\ LlmFailed(llmReply[1])) =>
        /\ EngineResponse.source = "fallback"
        /\ EngineResponse.answer = FALLBACK_ANSWER
        /\ EngineResponse.escalate_to_human = TRUE

\* the escalation flag the knowledge base stores with the matched entry
StoredFlag(entries, id) == EntryById(entries, id).escalation = Some(TRUE)

\* C3: a request that ends with source 'kb' has escalate_to_human equal to the
\* escalation flag stored with the matched entry, in the engine (the match
\* coming through the similarity action's reply) and in the top-level main.
C3_KbEscalationIsStoredFlag ==
    /\ (EngineDone /\ EngineResponse.source = "kb") =>
           EngineResponse.escalate_to_human =
               StoredFlag(kbRead[1], best[1].entry.id)
    /\ (MainDone /\ entry = "top" /\ "source" \in DOMAIN MainResult
           /\ MainResult.source = "kb") =>
           MainResult.escalate_to_human = StoredFlag(kbRead[1], best[1].entry.id)

\* C4: in every terminal state of process_question, of the orchestrator main
\* and of the top-level main, a response with source 'fallback' or 'error'
\* has escalate_to_human = true.
C4_FallbackAndErrorEscalate ==
    /\ (EngineDone /\ EngineResponse.source \in {"fallback", "error"}) =>
           EngineResponse.escalate_to_human = TRUE
    /\ (MainDone /\ entry \in {"top", "orch"} /\ "source" \in DOMAIN MainResult
           /\ MainResult.source \in {"fallback", "error"}) =>
           /\ "escalate_to_human" \in DOMAIN MainResult
           /\ MainResult.escalate_to_human = TRUE

\* always_call_llm has been resolved for the request in progress
FlagResolved == pc \in {"top_match", "engine_match"}

\* C5: the flag is the request's value when the request supplies true or
\* false, else the environment's value when the environment has one, else
\* false.
C5_RequestThenEnvThenFalse ==
    FlagResolved =>
        /\ (args.ALWAYS_CALL_LLM # None /\ args.ALWAYS_CALL_LLM[1].type = "bool")
               => always = args.ALWAYS_CALL_LLM[1].val
        /\ (args.ALWAYS_CALL_LLM = None /\ env # None)
               => always = (str_lower(env[1]) = StrTrue)
        /\ (args.ALWAYS_CALL_LLM = None /\ env = None) => always = FALSE

\* C6 as stated: with always_call_llm true and a confident best match,
\* process_question ends with source 'llm', after exactly one LLM call that
\* carries the entry's answer as context.
C6_AlwaysLlmEndsLlm ==
    (EngineDone /\ always /\ ConfidentMatch) =>
        /\ EngineResponse.source = "llm"
        /\ llmCalls = <<[question |-> Question,
                         context |-> Some(best[1].entry.answer)]>>

\* C6: with always_call_llm true and a confident best match (of a non-empty
\* answer), process_question never ends with source 'kb': after exactly one
\* LLM call that carries the entry's answer as context it ends with source
\* 'llm', or with 'fallback' when the LLM's reply holds a null answer.
C6_AlwaysLlmNeverKb ==
    (EngineDone /\ always /\ ConfidentMatch /\ best[1].entry.answer # <<>>) =>
        /\ EngineResponse.source # "kb"
        /\ \/ EngineResponse.source = "llm"
           \/ /\ EngineResponse.source = "fallback"
              /\ llmReply = Some(LlmReply("null_answer", <<>>))
        /\ llmCalls = <<[question |-> Question,
                         context |-> Some(best[1].entry.answer)]>>

C6_Witness ==
    /\ EngineDone
    /\ always
    /\ ConfidentMatch
    /\ EngineResponse.source = "llm"
    /\ llmReply = Some(LlmReply("answer", LlmHelp))
    /\ llmCalls[1].context = Some(best[1].entry.answer)

\* C7: in every entry point a missing or empty question returns exactly the
\* record {error: 'Missing required parameter: question'}, and nothing
\* precedes it: no configuration load, no knowledge-base read, no matcher
\* call, no LLM call.
C7_MissingQuestionFirst ==
    (pc = "done" /\ args.question \in {None, Some(<<>>)}) =>
        /\ result = Returned(MISSING_QUESTION)
        /\ trace = <<>>
        /\ llmCalls = <<>>

\* C8: in every entry point a whitespace-only question ends in an error
\* record and reaches neither the knowledge base, the matcher nor the LLM.
C8_BlankQuestionRejected ==
    (pc = "done" /\ args.question = Some(QBlank)) =>
        /\ MainDone
        /\ "error" \in DOMAIN MainResult
        /\ ~InTrace("kb")
        /\ ~InTrace("matcher")
        /\ ~InTrace("llm")

\* the position of a step in a call: no step is taken twice
Rank(p) ==
    CASE p = "idle" -> 0
      [] p \in {"top_config", "orch_config", "sim_main"} -> 1
      [] p \in {"top_validate", "orch_validate"} -> 2
      [] p \in {"top_match", "engine_init"} -> 3
      [] p \in {"top_llm", "engine_match"} -> 4
      [] p = "engine_route" -> 5
      [] p = "engine_llm" -> 6
      [] p = "orch_return" -> 7
      [] OTHER -> 8

\* the call is at a step of the code, and what that step reads is there
StepReady ==
    /\ Rank(pc) < 8 \/ pc = "done"
    /\ pc \in {"top_validate", "top_match", "top_llm", "engine_match",
               "engine_route", "engine_llm"} => config # None
    /\ pc \in {"orch_validate", "engine_init"} => cmConfig # None
    /\ pc = "orch_return" => (response.raised \/ response.value # None)

\* what the caller of process_question and of the two mains has received
ReturnedRecord ==
    /\ pc = "orch_return" => EngineDone
    /\ (pc = "done" /\ entry \in {"top", "orch"}) =>
           /\ MainDone
           /\ \/ MainResult = MISSING_QUESTION
              \/ /\ {"answer", "source"} \subseteq DOMAIN MainResult
                 /\ MainResult.source \in {"kb", "llm", "fallback", "error"}

\* C9: every invocation of process_question, of the orchestrator main and of
\* the top-level main terminates by returning a record and never raises,
\* whatever the configuration load, the matcher and the LLM do; the record is
\* the validation error record or holds an answer and a source in
\* {kb, llm, fallback, error}. Termination: every step before the return has
\* a next step, and each step moves the call forward.
C9_AlwaysReturnsRecord ==
    /\ [](ReturnedRecord /\ StepReady)
    /\ [][Rank(pc') > Rank(pc) \/ pc' = "idle"]_vars

C9_Witness ==
    /\ MainDone
    /\ entry = "orch"
    /\ matcherMode = "unreachable"
    /\ llmReply = Some(LlmReply("exception", <<>>))
    /\ MainResult.source \in {"kb", "llm", "fallback", "error"}

\* C10 as stated: compute_cosine_similarity(t, t) = 1.0, within the rounding
\* of floats, for every non-empty text t.
C10_SelfSimilarityOfNonEmptyText ==
    (cosPc = "returned" /\ text1 = text2 /\ text1 # <<>>)
        => RealNear(similarity, One)

\* C10: compute_cosine_similarity(t, t) = 1.0, within the rounding of floats,
\* for every text t whose normalised token sequence is non-empty.
C10_SelfSimilarityOfTokens ==
    (cosPc = "returned" /\ text1 = text2 /\ tokenize(text1) # <<>>)
        => RealNear(similarity, One)

C10_Witness ==
    /\ cosPc = "returned"
    /\ text1 = text2
    /\ Len(tokenize(text1)) = 2
    /\ similarity = One

\* C11: for every text t, the empty text included, the score of t against the
\* empty text and of the empty text against t is 0.0, and it is a number (no
\* division by zero took place).
C11_EmptyTextScoresZero ==
    (cosPc = "returned" /\ (text1 = <<>> \/ text2 = <<>>))
        => similarity = Zero /\ similarity.den > 0

C11_Witness ==
    /\ cosPc = "returned"
    /\ text1 = <<>>
    /\ tokenize(text2) # <<>>
    /\ similarity = Zero

\* C12: the score is symmetric: the score returned for (text1, text2) is the
\* score the function gives for (text2, text1).
C12_ScoreIsSymmetric ==
    cosPc = "returned" => similarity = compute_cosine_similarity(text2, text1)

C12_Witness ==
    /\ cosPc = "returned"
    /\ Len(tokenize(text1)) = 1
    /\ Len(tokenize(text2)) = 2
    /\ RealGt(similarity, Zero)
    /\ RealGt(One, similarity)

\* 0.0 <= x <= 1.0
InUnitInterval(x) == RealGeq(x, Zero) /\ RealGeq(One, x)

\* C13: every similarity score lies in [0, 1]: each scored match the
\* similarity action returns has 0 <= similarity_score <= 1.
C13_ScoresInUnitInterval ==
    (MainDone /\ entry = "sim" /\ "all_matches" \in DOMAIN MainResult) =>
        \A i \in DOMAIN MainResult.all_matches :
            InUnitInterval(MainResult.all_matches[i].similarity_score)

\* the matches the similarity action returned, when it returned any
SimMatches ==
    IF MainDone /\ entry = "sim" /\ "all_matches" \in DOMAIN MainResult
    THEN MainResult.all_matches
    ELSE <<>>

\* the position at which the knowledge base in use holds the entry `id`
LoadIndex(entries, id) == CHOOSE i \in 1..Len(entries) : entries[i].id = id

BestIsMaximum(ms, entries, query) ==
    \A i \in 1..Len(entries) :
        RealGeq(ms[1].similarity_score,
                compute_cosine_similarity(query, entries[i].question))

TiesInLoadOrder(ms, entries) ==
    \A i, j \in 1..Len(ms) :
        (i < j /\ ms[i].similarity_score = ms[j].similarity_score)
            => LoadIndex(entries, ms[i].entry.id) < LoadIndex(entries, ms[j].entry.id)

\* C14: the first element of all_matches has the maximum similarity score
\* over all entries of the knowledge base, and matches of equal score stand
\* in the order in which their entries were loaded.
C14_BestFirstTiesInLoadOrder ==
    SimMatches # <<>> =>
        /\ BestIsMaximum(SimMatches, kbRead[1], Question)
        /\ TiesInLoadOrder(SimMatches, kbRead[1])

C14_Witness ==
    /\ Len(SimMatches) >= 3
    /\ \E i \in 2..(Len(SimMatches) - 1) :
          /\ SimMatches[i].similarity_score = SimMatches[i + 1].similarity_score
          /\ RealGt(SimMatches[1].similarity_score, SimMatches[i].similarity_score)
          /\ LoadIndex(kbRead[1], SimMatches[i].entry.id)
                < LoadIndex(kbRead[1], SimMatches[i + 1].entry.id)

\* C15: a similarity request whose algorithm name is not 'cosine' ends in an
\* error and returns no match result, for every question and every knowledge
\* base, an empty one included.
C15_UnknownAlgorithmIsAnError ==
    (MainDone /\ entry = "sim" /\ args.algorithm # None
        /\ args.algorithm[1] # ALGORITHM_COSINE)
    => /\ "error" \in DOMAIN MainResult
       /\ "best_match" \notin DOMAIN MainResult
       /\ "all_matches" \notin DOMAIN MainResult

\* the phrase stands in the answer from position k + 1 on, letter case aside
OccursAt(phrase, answer_, k) ==
    /\ k + Len(phrase) <= Len(answer_)
    /\ \A j \in 1..Len(phrase) : LowerChar(answer_[k + j]) = LowerChar(phrase[j])

Reverse(s) == [i \in 1..Len(s) |-> s[Len(s) + 1 - i]]

\* C16: _should_escalate(answer) is true if and only if at least one
\* configured phrase, compared case-insensitively, is a substring of the
\* answer; it is false for an empty phrase list; and the result is the same
\* for the phrases in another order.
C16_EscalateIffSomePhraseOccurs ==
    escPc = "returned" =>
        /\ escResult <=> \E i \in 1..Len(escPhrases) :
                            \E k \in 0..Len(escAnswer) :
                                OccursAt(escPhrases[i], escAnswer, k)
        /\ escPhrases = <<>> => ~escResult
        /\ escResult = should_escalate(escAnswer, Reverse(escPhrases))

C16_Witness ==
    /\ escPc = "returned"
    /\ escResult
    /\ Len(escPhrases) = 2
    /\ ~str_contains(str_lower(escAnswer), str_lower(escPhrases[1]))
    /\ ~str_contains(escAnswer, escPhrases[2])
    /\ escPhrases[2] # str_lower(escPhrases[2])

\* some phrase of the list stands in the text, letter case aside
SomePhraseOccurs(text, phrases) ==
    \E i \in 1..Len(phrases) :
        \E k \in 0..Len(text) : OccursAt(phrases[i], text, k)

ConfiguredPhrases == config[1].prompts.escalation_phrases

\* the record carries the text the LLM returned, when it returned one
CarriesLlmText(record) ==
    llmReply[1].kind = "answer" => record.answer = llmReply[1].answer

\* C17: a response with source 'llm' has escalate_to_human equal to the
\* escalation detector's result over the answer text it carries, the text the
\* LLM returned: true exactly when that text holds a configured escalation
\* phrase, whatever the matched entry's own flag is. In process_question and
\* in the top-level main.
C17_LlmEscalationIsDetectorOverAnswer ==
    /\ (EngineDone /\ EngineResponse.source = "llm") =>
           /\ EngineResponse.escalate_to_human
                  = SomePhraseOccurs(EngineResponse.answer, ConfiguredPhrases)
           /\ CarriesLlmText(EngineResponse)
    /\ (MainDone /\ entry = "top" /\ "source" \in DOMAIN MainResult
           /\ MainResult.source = "llm") =>
           /\ MainResult.escalate_to_human
                  = SomePhraseOccurs(MainResult.answer, ConfiguredPhrases)
           /\ CarriesLlmText(MainResult)

C17_Witness ==
    /\ EngineDone
    /\ EngineResponse.source = "llm"
    /\ llmReply[1].kind = "answer"
    /\ best # None
    /\ kbRead # None
    /\ StoredFlag(kbRead[1], best[1].entry.id)
    /\ best[1].entry.escalation
    /\ ~EngineResponse.escalate_to_human

\* the best match's confidence when a best match existed, else absent
BestMatchConfidence == IF best # None THEN Some(best[1].confidence) ELSE None

\* C18: a response with source 'llm' has confidence equal to the best KB
\* match's confidence when a best match existed and absent otherwise, in
\* process_question and in the top-level main.
C18_LlmConfidenceIsBestMatchConfidence ==
    /\ (EngineDone /\ EngineResponse.source = "llm") =>
           EngineResponse.confidence = BestMatchConfidence
    /\ (MainDone /\ entry = "top" /\ "source" \in DOMAIN MainResult
           /\ MainResult.source = "llm") =>
           /\ "confidence" \in DOMAIN MainResult
           /\ MainResult.confidence = BestMatchConfidence

\* C19: the record to_dict() makes of a HelpdeskResponse carries the
\* escalation decision under the key escalate_to_human, and, made without a
\* question, consists exactly of the keys answer, source, confidence and
\* escalate_to_human with the response's field values.
C19_ToDictCarriesEscalateToHuman ==
    /\ (MainDone /\ entry = "orch" /\ ~response.raised /\ response.value # None) =>
           /\ "escalate_to_human" \in DOMAIN MainResult
           /\ MainResult.escalate_to_human = EngineResponse.escalate_to_human
    /\ EngineDone =>
           /\ DOMAIN to_dict(EngineResponse, None)
                  = {"answer", "source", "confidence", "escalate_to_human"}
           /\ \A key \in {"answer", "source", "confidence", "escalate_to_human"} :
                  to_dict(EngineResponse, None)[key] = EngineResponse[key]

\* the request carries a question the entry points accept
ValidQuestion == Question # <<>> /\ ~HelpdeskRequestInvalid(Question)

\* C20: whatever the configuration file holds (missing and malformed
\* included), loading the configuration of a valid request goes on to process
\* the request: the step never ends the request with an error response.
C20_ConfigLoadGoesOn ==
    [][(pc \in {"orch_config", "top_config"} /\ ValidQuestion)
           => ~(pc' = "done" /\ result'.value[1].source = "error")]_vars

\* the knowledge file could not be loaded
LoadFailed == kbFile # None /\ kbFile[1].state # "ok"

\* the record find_similar gives for the question against the compiled-in
\* entries
DefaultsReply(question, threshold) ==
    SimilarityResponseToDict(
        SimilarityResponse(
            SortByScore(Candidates(DefaultKnowledgeBase, question,
                                   ALGORITHM_COSINE)),
            threshold))

\* C21: when loading the knowledge file fails (file missing, unparseable, or
\* any other failure), the store keeps the compiled-in entries, the request
\* is not aborted, and find_similar completes against those entries.
C21_LoadFailureKeepsDefaults ==
    (pc = "done" /\ entry = "sim" /\ LoadFailed) =>
        /\ kbRead = Some(DefaultKnowledgeBase)
        /\ MainDone
        /\ args.algorithm = None =>
               /\ "error" \notin DOMAIN MainResult
               /\ MainResult = DefaultsReply(Question,
                                             GetOr(args.threshold, DefaultThreshold))

C21_Witness ==
    /\ MainDone
    /\ entry = "sim"
    /\ kbFile = Some(KbFile("unreadable", <<>>))
    /\ args.algorithm = None
    /\ Len(SimMatches) >= 2
    /\ SimMatches[1].entry.id = DefaultKnowledgeBase[1].id

\* the candidates of the knowledge base in use, ranked
Ranked == SortByScore(Candidates(kbRead[1], Question, ALGORITHM_COSINE))

TopRankedContext(ranked) ==
    IF ranked # <<>> THEN Some(ranked[1].answer) ELSE None

\* C22: when the engine invokes the LLM and some knowledge-base entry scores
\* > 0 with the question, the answer of the top-ranked entry is the context
\* of the LLM request, also below the threshold; the context is absent only
\* when no entry scores > 0.
C22_TopRankedAnswerIsContext ==
    (pc = "orch_return" /\ matcherMode = "service" /\ llmCalls # <<>>
        /\ config[1].similarity.algorithm = ALGORITHM_COSINE) =>
        llmCalls[1].context = TopRankedContext(Ranked)

\* the similarity action ran find_similar with cosine and returned its record
SimRanked ==
    MainDone /\ entry = "sim" /\ kbFile # None /\ args.algorithm = None

ServiceThreshold == GetOr(args.threshold, DefaultThreshold)

\* some entry of the knowledge base scores > 0 and at least `threshold`
TopScoreReaches(entries, query, threshold) ==
    \E i \in 1..Len(entries) :
        /\ RealGt(compute_cosine_similarity(query, entries[i].question), Zero)
        /\ RealGeq(compute_cosine_similarity(query, entries[i].question),
                   threshold)

\* C23: find_similar returns no best_match when the top-ranked candidate's
\* confidence is below the service threshold and the top-ranked candidate
\* otherwise; below the threshold all_matches still lists the candidates.
C23_BestMatchIffTopReachesThreshold ==
    SimRanked =>
        /\ "best_match" \in DOMAIN MainResult
               <=> TopScoreReaches(kbRead[1], Question, ServiceThreshold)
        /\ "best_match" \in DOMAIN MainResult
               => MainResult.best_match = MainResult.all_matches[1]
        /\ Len(SimMatches) = Len(Ranked)

\* a question with candidates whose top score lies between the two thresholds
\* gets no best_match at the higher one
C23_Witness ==
    /\ SimRanked
    /\ args.threshold = Some(Threshold09)
    /\ "best_match" \notin DOMAIN MainResult
    /\ Len(SimMatches) >= 2
    /\ RealGeq(SimMatches[1].confidence, DefaultThreshold)

\* the entries of the knowledge base that score > 0 with the query
PositiveEntries(entries, query) ==
    {i \in 1..Len(entries) :
        RealGt(compute_cosine_similarity(query, entries[i].question), Zero)}

ExactlyThePositive(ms, entries, query) ==
    /\ Len(ms) = Cardinality(PositiveEntries(entries, query))
    /\ \A i \in PositiveEntries(entries, query) :
          \E j \in 1..Len(ms) :
              /\ ms[j].entry.id = entries[i].id
              /\ ms[j].similarity_score
                    = compute_cosine_similarity(query, entries[i].question)

NonIncreasing(ms) ==
    \A j \in 1..(Len(ms) - 1) :
        RealGeq(ms[j].similarity_score, ms[j + 1].similarity_score)

\* C24: all_matches holds exactly the knowledge-base entries whose score with
\* the question is > 0, each with confidence equal to its similarity_score,
\* in order of non-increasing similarity_score.
C24_AllMatchesArePositiveSorted ==
    SimRanked =>
        /\ ExactlyThePositive(SimMatches, kbRead[1], Question)
        /\ \A j \in 1..Len(SimMatches) :
              SimMatches[j].confidence = SimMatches[j].similarity_score
        /\ NonIncreasing(SimMatches)

C24_Witness ==
    /\ SimRanked
    /\ Len(SimMatches) >= 3
    /\ Len(SimMatches) < Len(kbRead[1])
    /\ RealGt(SimMatches[1].similarity_score, SimMatches[3].similarity_score)

\* C25: when the configured similarity algorithm is unsupported, a request
\* through the orchestrator does not end with a 'kb' or 'llm' answer.
C25_UnsupportedAlgorithmIsSurfaced ==
    (MainDone /\ entry = "orch" /\ config # None /\ matcherMode = "service"
        /\ config[1].similarity.algorithm # ALGORITHM_COSINE) =>
        MainResult.source \notin {"kb", "llm"}

\* the matcher call failed: no reply, a reply that cannot be read, or a reply
\* whose best_match has no usable confidence
MatcherFailed == matcherMode \in {"unreachable", "malformed", "mistyped"}

\* C26: when the matcher call fails, process_question goes on as with no
\* match: the LLM is invoked once, without context, and with an LLM answer
\* the request ends with source 'llm' and that answer, not in 'fallback' or
\* 'error'.
C26_MatcherFailureIsNoMatch ==
    /\ (pc \in {"engine_route", "engine_llm"} /\ MatcherFailed) => best = None
    /\ (EngineDone /\ MatcherFailed) =>
           /\ Len(llmCalls) = 1
           /\ llmCalls[1].context = None
           /\ llmReply[1].kind = "answer" =>
                  /\ EngineResponse.source = "llm"
                  /\ EngineResponse.answer = llmReply[1].answer
    /\ (pc = "done" /\ entry = "orch" /\ MatcherFailed
           /\ llmReply[1].kind = "answer") =>
           MainDone /\ MainResult.source = "llm"

\* how often the run made the call `step`
Calls(step) == Cardinality({i \in DOMAIN trace : trace[i] = step})

MatcherCalls == Calls("matcher") + Calls("kb")

\* every matcher call of the trace stands before every LLM call
MatcherBeforeLlm ==
    \A i, j \in DOMAIN trace :
        (trace[i] \in {"matcher", "kb"} /\ trace[j] = "llm") => i < j

\* C27: in a run of one request the matcher is called at most once and the
\* LLM at most once, also after a failed call; the matcher call precedes the
\* LLM call; and a run that ends with source 'kb' made no LLM call.
C27_OneMatcherCallThenOneLlmCall ==
    /\ MatcherCalls <= 1
    /\ Calls("llm") <= 1
    /\ Len(llmCalls) = Calls("llm")
    /\ Calls("llm") = 1 => MatcherCalls = 1
    /\ MatcherBeforeLlm
    /\ (EngineDone /\ EngineResponse.source = "kb") => Calls("llm") = 0
    /\ (MainDone /\ "source" \in DOMAIN MainResult /\ MainResult.source = "kb")
           => Calls("llm") = 0

C27_Witness ==
    /\ MainDone
    /\ entry = "orch"
    /\ MatcherFailed
    /\ trace = <<"config", "matcher", "llm">>
    /\ LlmFailed(llmReply[1])
    /\ Len(llmCalls) = 1

FlagUnspecified == args.ALWAYS_CALL_LLM = None /\ env = None

\* C29: with ALWAYS_CALL_LLM absent from both the request arguments and the
\* environment, the top-level main resolves always_call_llm to true and
\* HelpdeskEngine resolves it to false.
C29_TopDefaultsTrueEngineFalse ==
    /\ (pc = "top_match" /\ FlagUnspecified) => always = TRUE
    /\ (pc = "engine_match" /\ FlagUnspecified) => always = FALSE

\* the two normalised token sequences have a token in common
SharesToken(tokens1, tokens2) ==
    \E i \in 1..Len(tokens1), j \in 1..Len(tokens2) : tokens1[i] = tokens2[j]

\* C30: the score is > 0 if and only if the normalised token sequences of the
\* two texts share a token, and it is unchanged by reordering the tokens of a
\* text, by its letter case and by punctuation in it.
C30_PositiveIffSharedToken ==
    cosPc = "returned" =>
        /\ RealGt(similarity, Zero)
               <=> SharesToken(tokenize(text1), tokenize(text2))
        /\ similarity = compute_cosine_similarity(
                            str_join(Reverse(tokenize(text1))), text2)
        /\ similarity = compute_cosine_similarity(str_lower(text1), text2)
        /\ similarity = compute_cosine_similarity(text1, <<"?">> \o text2)
        /\ similarity = compute_cosine_similarity(
                            SelectSeq(text1, LAMBDA c : c # "?"), text2)

C30_Witness ==
    /\ cosPc = "returned"
    /\ text1 = <<"A", " ", "b">>
    /\ text2 = <<"b", "?">>
    /\ RealGt(similarity, Zero)
    /\ RealGt(One, similarity)

=============================================================================
